---- MODULE Spec2Model ----
(***************************************************************************)
(* Verification model of the wetterdienst request-resolution, caching and  *)
(* data-assembly core:                                                      *)
(*   wetterdienst/dwd/observations/api.py  (DWDObservationData)             *)
(*   wetterdienst/core/observations.py     (ObservationDataCore)            *)
(*   wetterdienst/store.py                 (StorageAdapter, LocalHDF5Store) *)
(*   wetterdienst/util/parameter.py        (build_parameter_identifier)     *)
(*                                                                         *)
(* A pandas DataFrame is a record [has_date, rows]: has_date tells whether  *)
(* the frame has a DATE column (pd.DataFrame() has no columns at all), rows *)
(* is the sequence of its rows in index order.                              *)
(***************************************************************************)
EXTENDS Integers, Sequences, FiniteSets, TLC

VARIABLES
    \* ---- DWDObservationData._collect_data, the period loop ----
    pc_merge,       \* "idle" | "loop" | "merged": position in api.py:181-204
    periods,        \* self.periods, the request's period list
    slices,         \* slices[i]: the table the call at api.py:185 returns for periods[i]
    period_idx,     \* position of the for loop at api.py:183 (1-based)
    parameter_df,   \* the accumulated table (api.py:181, 202)
    \* ---- the cache: LocalHDF5Store over the local file system ----
    files,          \* the HDF5 files that exist: filepath -> (key -> stored frame)
    dir_exists,     \* whether the directory <folder>/<source.name> exists
    last,           \* the most recent call on a store handle and how it ended
    prev,           \* the call before it
    \* ---- the pipeline step: ObservationDataCore._collect_data ----
    request,        \* self: storage adapter, resolution, period list
    step,           \* the most recent pipeline step and how it ended
    prev_step,      \* the step before it: its station/parameter/period, its handle
    \* ---- construction: DWDObservationData.__init__ ----
    pc_init,        \* how far __init__ has come, "constructed" or "raised"
    call_args,      \* the arguments of the constructor call
    obj,            \* the fields of self assigned so far
    raised_init,    \* the exception that left __init__, or "none"
    log,            \* the diagnostics logged so far (observations.py:55)
    \* ---- collection: ObservationDataCore.collect_data, collect_safe ----
    collect,        \* the generator of collect_data and what it has yielded
    \* ---- station queries: SitesCore ----
    sites,          \* the sites request, its station metadata and the last query
    \* ---- the storage adapter: StorageAdapter ----
    adapter         \* a StorageAdapter instance and the last call made on it

merge_vars == <<pc_merge, periods, slices, period_idx, parameter_df>>
store_vars == <<files, dir_exists, last, prev>>
step_vars == <<request, step, prev_step>>
init_vars == <<pc_init, call_args, obj, raised_init, log>>
collect_vars == <<collect>>
sites_vars == <<sites>>
adapter_vars == <<adapter>>
vars == <<pc_merge, periods, slices, period_idx, parameter_df,
          files, dir_exists, last, prev, request, step, prev_step,
          pc_init, call_args, obj, raised_init, log, collect, sites,
          adapter>>

----------------------------------------------------------------------------
\* Bounds of the model.
MaxDate == 2        \* timestamps are 1..MaxDate
MaxRows == 2        \* rows of one period slice
MaxStoreRows == 1   \* rows of a frame handed to LocalHDF5Store.store
MaxTokens == 3      \* parameter tokens of one request
MaxRuns == 2        \* calls of collect_data on one request
RecursionLimit == 3 \* depth at which the interpreter raises RecursionError
MaxStations == 3    \* rows of the station metadata table
MaxLat == 1         \* latitudes are 0..MaxLat, in radians

Dates == 1..MaxDate
\* Two distinguishable measured values.
Vals  == {0, 1}

----------------------------------------------------------------------------
\* DataFrames.

\* A row of a wide per-parameter-set table: its DATE and its measured value.
Row == [DATE : Dates, VALUE : Vals]

\* pd.DataFrame(): no columns, no rows.
EmptyFrame == [has_date |-> FALSE, rows |-> <<>>]

\* The set of elements of a sequence.
Range(s) == {s[i] : i \in DOMAIN s}

\* df[MetaColumns.DATE.value] as the set of its values; only used when has_date.
DateValues(df) == {df.rows[i].DATE : i \in DOMAIN df.rows}

\* df.empty
IsEmpty(df) == Len(df.rows) = 0

\* No two rows of df carry the same DATE.
UniqueDates(df) ==
    \A i, j \in DOMAIN df.rows : df.rows[i].DATE = df.rows[j].DATE => i = j

\* Sequences over S of length at most n.
SeqUpTo(S, n) == UNION {[1..k -> S] : k \in 0..n}

\* The tables a period can deliver (from cache restore or from a fetch): the
\* empty frame (restore miss with an invalid combination, api.py:235), or an
\* ObservationTable: a DATE column and one row per timestamp, in any order.
PeriodSlices ==
    {EmptyFrame} \cup
    {[has_date |-> TRUE, rows |-> r] : r \in {s \in SeqUpTo(Row, MaxRows) :
        \A i, j \in DOMAIN s : s[i].DATE = s[j].DATE => i = j}}

\* DataFrame.append(other): rows of self, then rows of other; columns are the
\* union of both frames' columns.
DfAppend(df, other) ==
    [has_date |-> df.has_date \/ other.has_date, rows |-> df.rows \o other.rows]

----------------------------------------------------------------------------
\* DWDObservationPeriod, in enumeration order.
AllPeriods == <<"HISTORICAL", "RECENT", "NOW">>

\* No call has been made (the value of last and prev before the first call).
NoCall == [op |-> "none"]

\* self.storage of a request built without a storage adapter (None).
NoStorage == [configured |-> FALSE]

\* The constructor part of the state while no constructor call is looked at.
InitIdle ==
    /\ pc_init = "idle"
    /\ call_args = <<>>
    /\ obj = <<>>
    /\ raised_init = "none"
    /\ log = <<>>

\* No sites request exists.
SitesIdle == sites = [op |-> "none"]

\* The adapter part of the state while no StorageAdapter is looked at.
AdapterIdle == adapter = [op |-> "none"]

\* No generator of collect_data exists.
CollectIdle == collect = [pc |-> "idle"]

\* The pipeline-step part of the state while no request is looked at.
StepIdle ==
    /\ request = [storage |-> NoStorage, resolution |-> "none", periods |-> <<>>]
    /\ step = NoCall
    /\ prev_step = NoCall

\* The cache part of the state while only the period loop is looked at.
StoreIdle ==
    /\ files = <<>>
    /\ dir_exists = FALSE
    /\ last = NoCall
    /\ prev = NoCall

\* The period-loop part of the state while only the cache is looked at.
MergeIdle ==
    /\ pc_merge = "idle"
    /\ periods = <<>>
    /\ slices = <<>>
    /\ period_idx = 0
    /\ parameter_df = [has_date |-> FALSE, rows |-> <<>>]

\* The non-empty period lists a request can hold (api.py:110-115): the whole
\* enumeration, or the sorted parsed caller-supplied periods.
PeriodLists ==
    {<<"HISTORICAL", "RECENT", "NOW">>,
     <<"HISTORICAL", "RECENT">>, <<"HISTORICAL", "NOW">>, <<"RECENT", "NOW">>,
     <<"HISTORICAL">>, <<"RECENT">>, <<"NOW">>}

----------------------------------------------------------------------------
\* api.py:192-200: keep the rows of period_df whose DATE is not yet in the
\* accumulated table.  period_df[DATE] or acc[DATE] raises KeyError when the
\* frame has no DATE column; the except clause then leaves period_df as it is.
FilterPeriod(acc, period_df) ==
    IF ~period_df.has_date \/ ~acc.has_date
    THEN period_df
    ELSE [has_date |-> TRUE,
          rows |-> SelectSeq(period_df.rows,
                             LAMBDA r : r.DATE \notin DateValues(acc))]

\* Mutant: the filter is skipped, every period is appended whole.
MergePeriod_NoFilter(acc, period_df) == DfAppend(acc, period_df)

\* Mutant: the later period wins, rows of the accumulated table are replaced.
MergePeriod_LaterWins(acc, period_df) ==
    IF ~period_df.has_date \/ ~acc.has_date
    THEN DfAppend(acc, period_df)
    ELSE DfAppend([has_date |-> TRUE,
                   rows |-> SelectSeq(acc.rows,
                                      LAMBDA r : r.DATE \notin DateValues(period_df))],
                  period_df)

\* Mutant: the filter lost its negation (isin instead of ~isin).
MergePeriod_KeepKnown(acc, period_df) ==
    IF ~period_df.has_date \/ ~acc.has_date
    THEN DfAppend(acc, period_df)
    ELSE DfAppend(acc, [has_date |-> TRUE,
                        rows |-> SelectSeq(period_df.rows,
                                           LAMBDA r : r.DATE \in DateValues(acc))])

\* api.py:192-202: one pass of the loop body after the slice is at hand.
MergePeriod(acc, period_df) == DfAppend(acc, FilterPeriod(acc, period_df))

----------------------------------------------------------------------------
\* The period loop of DWDObservationData._collect_data for one
\* (station, parameter) pair.  The slice of each period is the value handed
\* back by the call at api.py:185 and ranges over PeriodSlices.

MergeInit ==
    /\ pc_merge = "loop"
    /\ periods \in PeriodLists
    /\ slices \in [1..3 -> PeriodSlices]
    /\ \A i \in 1..3 : i > Len(periods) => slices[i] = EmptyFrame
    /\ period_idx = 1
    /\ parameter_df = EmptyFrame                      \* api.py:181
    /\ StoreIdle
    /\ StepIdle
    /\ InitIdle
    /\ CollectIdle
    /\ SitesIdle
    /\ AdapterIdle

\* api.py:183-202, one iteration.
PeriodStep ==
    /\ pc_merge = "loop"
    /\ period_idx <= Len(periods)
    /\ parameter_df' = MergePeriod(parameter_df, slices[period_idx])
    /\ period_idx' = period_idx + 1
    /\ UNCHANGED <<pc_merge, periods, slices>>
    /\ UNCHANGED <<store_vars, step_vars, init_vars, collect_vars, sites_vars, adapter_vars>>

\* The loop is exhausted; control reaches api.py:204.
PeriodLoopDone ==
    /\ pc_merge = "loop"
    /\ period_idx > Len(periods)
    /\ pc_merge' = "merged"
    /\ UNCHANGED <<periods, slices, period_idx, parameter_df>>
    /\ UNCHANGED <<store_vars, step_vars, init_vars, collect_vars, sites_vars, adapter_vars>>

MergeNext == PeriodStep \/ PeriodLoopDone

SpecMerge == MergeInit /\ [][MergeNext]_vars

----------------------------------------------------------------------------
\* The cache: wetterdienst/store.py and wetterdienst/util/parameter.py.
\*
\* The outcome of a call is a record whose field raised names the exception
\* class that left the call, or "none" for a normal return.

StationIds == {1, 2}

\* A cell of a quality/integer column: nullable Int64 in memory (missing is
\* pd.NA), float64 on disk (missing is NaN).
Cell == [dtype : {"Int64", "float64"}, missing : BOOLEAN, v : {0, 3}]
Int64Cells ==
    {[dtype |-> "Int64", missing |-> TRUE, v |-> 0],
     [dtype |-> "Int64", missing |-> FALSE, v |-> 3]}

\* Series.astype(dtype) on a quality/integer cell: the number is kept, a
\* missing value becomes the missing value of the new dtype.
AsType(cell, dtype) == [cell EXCEPT !.dtype = dtype]

\* A row of a coerced wide table: DATE, a float value, a quality column QN.
StoreRow == [DATE : {1}, VALUE : {0}, QN : Int64Cells]

\* The frames a caller hands to store(): empty ones (no columns, or columns
\* and no rows) and coerced tables (observations.py:180).
StoreFrames ==
    {EmptyFrame} \cup
    {[has_date |-> TRUE, rows |-> r] : r \in SeqUpTo(StoreRow, MaxStoreRows)}

\* store.py:108-111 and 134-137: cast every quality/integer column of df.
CastQuality(df, dtype) ==
    [df EXCEPT !.rows = [i \in DOMAIN df.rows |->
        [df.rows[i] EXCEPT !.QN = AsType(df.rows[i].QN, dtype)]]]

\* LocalHDF5Store.__init__ (store.py:55-63); one folder throughout.
LocalHDF5Store(identifiers, source) ==
    [identifiers |-> identifiers, source |-> source]

\* store.py:65-67: '-'.join(identifiers) + ".h5".  The tokens hold no '-', so
\* the joined name determines the token tuple, which stands for the name.
filename(self) == self.identifiers

\* store.py:69-71: Path(folder, source.name, filename).
filepath(self) == <<self.source, filename(self)>>

\* util/parameter.py:14-20: '/'.join(args) + "/station_id_" + str(station_id).
build_parameter_identifier(station_id, args) ==
    [args |-> args, station_id |-> station_id]

\* store.py:73-82: build_parameter_identifier(station_id, **self.identifiers).
\* self.identifiers is the tuple of positional arguments gathered by
\* StorageAdapter.hdf5(*args) (store.py:46-51, 57).  The ** unpacking of a call
\* needs a mapping, so the call raises TypeError ("argument after ** must be a
\* mapping, not tuple") before build_parameter_identifier is entered.
hdf5_key(self, station_id) == [raised |-> "TypeError"]

\* store.py:84-91: unlink the file; a missing file is not an error.
invalidate(self, fs) ==
    [raised |-> "none",
     files |-> [p \in DOMAIN fs.files \ {filepath(self)} |-> fs.files[p]],
     dir_exists |-> fs.dir_exists]

\* DataFrame.to_hdf(path, key) in append mode: the file is created if need
\* be, and the frame replaces whatever the key held.
to_hdf(fs_files, path, key, df) ==
    LET old == IF path \in DOMAIN fs_files THEN fs_files[path] ELSE <<>>
        new == [k \in DOMAIN old \cup {key} |-> IF k = key THEN df ELSE old[k]]
    IN  [p \in DOMAIN fs_files \cup {path} |->
            IF p = path THEN new ELSE fs_files[p]]

\* Mutant: the emptiness guard of store() is gone.
store_NoEmptyGuard(self, station_id, df, fs) ==
    LET cast == IF df.has_date THEN CastQuality(df, "float64") ELSE df
        key  == hdf5_key(self, station_id)
    IN  IF key.raised /= "none"
        THEN [raised |-> key.raised, df |-> cast,
              files |-> fs.files, dir_exists |-> TRUE]
        ELSE [raised |-> "none", df |-> cast,
              files |-> to_hdf(fs.files, filepath(self), key.key, cast),
              dir_exists |-> TRUE]

\* store.py:93-115.  df is cast in place, so the caller's frame changes too;
\* the directory is made before the arguments of to_hdf are evaluated, and
\* evaluating key=self.hdf5_key(station_id) is what raises.
store(self, station_id, df, fs) ==
    IF IsEmpty(df)
    THEN [raised |-> "none", df |-> df,
          files |-> fs.files, dir_exists |-> fs.dir_exists]       \* store.py:104-106
    ELSE
    LET cast == CastQuality(df, "float64")                         \* store.py:108-111
        key  == hdf5_key(self, station_id)
    IN  IF key.raised /= "none"
        THEN [raised |-> key.raised, df |-> cast,
              files |-> fs.files, dir_exists |-> TRUE]             \* store.py:114
        ELSE [raised |-> "none", df |-> cast,
              files |-> to_hdf(fs.files, filepath(self), key.key, cast),
              dir_exists |-> TRUE]                                 \* store.py:115

\* store.py:117-139.  The arguments of read_hdf are evaluated first, so an
\* exception of hdf5_key leaves restore() outside the reach of the except
\* clause's FileNotFoundError and KeyError.
restore(self, station_id, fs) ==
    LET key == hdf5_key(self, station_id)
    IN  IF key.raised /= "none"
        THEN [raised |-> key.raised, df |-> EmptyFrame]
        ELSE IF filepath(self) \notin DOMAIN fs.files                \* FileNotFoundError
        THEN [raised |-> "none", df |-> EmptyFrame]
        ELSE IF key.key \notin DOMAIN fs.files[filepath(self)]       \* KeyError
        THEN [raised |-> "none", df |-> EmptyFrame]
        ELSE [raised |-> "none",
              df |-> CastQuality(fs.files[filepath(self)][key.key], "Int64")]

\* The handles the calls below are made on: the one the pipeline step builds
\* (observations.py:161) and one that _invalidate_storage builds (api.py:250).
StoreHandles ==
    {LocalHDF5Store(<<"kl">>, "DWD"),
     LocalHDF5Store(<<"kl", "daily", "recent">>, "DWD")}

\* A slice found on disk before the first call: quality column as float64.
OldSlice ==
    [has_date |-> TRUE,
     rows |-> <<[DATE |-> 1, VALUE |-> 0,
                 QN |-> [dtype |-> "float64", missing |-> FALSE, v |-> 3]]>>]

\* What a cache file of a handle can hold before the first call: a slice for
\* any set of stations.
OldContents(self) ==
    {[k \in {build_parameter_identifier(id, self.identifiers) : id \in S}
        |-> OldSlice] : S \in SUBSET StationIds}

\* The cache directory as it can be found before the first call.
OldFiles ==
    UNION {{f \in [{filepath(h) : h \in H} -> UNION {OldContents(h) : h \in H}] :
                \A h \in H : f[filepath(h)] \in OldContents(h)}
           : H \in SUBSET StoreHandles}

StoreInit ==
    /\ files \in OldFiles
    /\ dir_exists \in BOOLEAN
    /\ (files /= <<>>) => dir_exists
    /\ last = NoCall
    /\ prev = NoCall
    /\ MergeIdle
    /\ StepIdle
    /\ InitIdle
    /\ CollectIdle
    /\ SitesIdle
    /\ AdapterIdle

FileSystem == [files |-> files, dir_exists |-> dir_exists]

\* A caller invokes store(station_id, df) on a handle.
StoreCall ==
    \E self \in StoreHandles, station_id \in StationIds, df \in StoreFrames :
        LET r == store(self, station_id, df, FileSystem)
        IN  /\ files' = r.files
            /\ dir_exists' = r.dir_exists
            /\ last' = [op |-> "store", self |-> self, station_id |-> station_id,
                        arg |-> df, df |-> r.df, raised |-> r.raised]
            /\ prev' = last
            /\ UNCHANGED <<merge_vars, step_vars, init_vars, collect_vars, sites_vars, adapter_vars>>

\* A caller invokes restore(station_id) on a handle.
RestoreCall ==
    \E self \in StoreHandles, station_id \in StationIds :
        LET r == restore(self, station_id, FileSystem)
        IN  /\ last' = [op |-> "restore", self |-> self, station_id |-> station_id,
                        arg |-> EmptyFrame, df |-> r.df, raised |-> r.raised]
            /\ prev' = last
            /\ UNCHANGED <<files, dir_exists>>
            /\ UNCHANGED <<merge_vars, step_vars, init_vars, collect_vars, sites_vars, adapter_vars>>

\* A caller invokes invalidate() on a handle.
InvalidateCall ==
    \E self \in StoreHandles :
        LET r == invalidate(self, FileSystem)
        IN  /\ files' = r.files
            /\ dir_exists' = r.dir_exists
            /\ last' = [op |-> "invalidate", self |-> self, station_id |-> 0,
                        arg |-> EmptyFrame, df |-> EmptyFrame, raised |-> r.raised]
            /\ prev' = last
            /\ UNCHANGED <<merge_vars, step_vars, init_vars, collect_vars, sites_vars, adapter_vars>>

StoreNext == StoreCall \/ RestoreCall \/ InvalidateCall

SpecStore == StoreInit /\ [][StoreNext]_vars

----------------------------------------------------------------------------
\* The pipeline step: ObservationDataCore._collect_data (observations.py:146-185)
\* with DWDObservationData's _get_data and _invalidate_storage.

\* DWDObservationParameterSet and DWDObservationResolution values in use.
ParameterSets == {"kl", "more_precip"}
Resolutions == {"daily", "hourly"}

\* period.value of a DWDObservationPeriod member.
PeriodValue(period) ==
    CASE period = "HISTORICAL" -> "historical"
      [] period = "RECENT" -> "recent"
      [] period = "NOW" -> "now"

\* A member of DWDObservationParameterSet as a Python value: it has .value
\* and cannot be unpacked.
EnumMember(value) == [kind |-> "enum", value |-> value]

\* StorageAdapter objects (store.py:35-44): the policy flags and the source
\* set by ObservationDataCore.__init__ (observations.py:83-84).
StorageAdapters ==
    {[configured |-> TRUE, persist |-> p, invalidate |-> i, source |-> "DWD"] :
        p \in BOOLEAN, i \in BOOLEAN}

\* StorageAdapter.hdf5(*args), store.py:46-51.
hdf5(storage, args) == LocalHDF5Store(args, storage.source)

\* A cell of a quality column as fetched: text that parses to a number or not.
RawCells ==
    {[dtype |-> "object", missing |-> TRUE, v |-> 0],
     [dtype |-> "object", missing |-> FALSE, v |-> 3]}

RawRow == [DATE : {1}, VALUE : {0}, QN : RawCells]

\* What the fetch collaborator collect_climate_observations_data can do
\* (api.py:222-229): hand back a table, or raise InvalidParameterCombination.
CollabOutcomes ==
    {[raised |-> "InvalidParameterCombination", df |-> EmptyFrame]} \cup
    {[raised |-> "none", df |-> [has_date |-> TRUE, rows |-> r]] :
        r \in SeqUpTo(RawRow, MaxStoreRows)}

\* kwargs.get(name): None when the keyword was not passed.
KwGet(kwargs, name) == IF name \in DOMAIN kwargs THEN kwargs[name] ELSE "None"

\* Mutant: the except clause of api.py:229 is gone.
get_data_NoCatch(self, station_id, parameter, kwargs, collab) ==
    [raised |-> collab.raised, df |-> collab.df,
     fetch_calls |-> <<[station_id |-> station_id,
                        parameter_set |-> parameter.value,
                        resolution |-> KwGet(kwargs, "resolution"),
                        period |-> KwGet(kwargs, "period")]>>]

\* DWDObservationData._get_data, api.py:217-237.  collab is what the fetch
\* collaborator does when called; the call made is handed back with the frame.
get_data(self, station_id, parameter, kwargs, collab) ==
    LET call == [station_id |-> station_id,
                 parameter_set |-> parameter.value,
                 resolution |-> KwGet(kwargs, "resolution"),
                 period |-> KwGet(kwargs, "period")]
    IN  IF collab.raised = "InvalidParameterCombination"
        THEN [raised |-> "none", df |-> EmptyFrame, fetch_calls |-> <<call>>]
        ELSE [raised |-> collab.raised, df |-> collab.df, fetch_calls |-> <<call>>]

\* ObservationDataCore.coerce_field_types, observations.py:202-216, on the
\* columns of the model: the quality column becomes nullable Int64, a cell
\* that does not parse becomes missing.  A frame without columns is left alone.
coerce_field_types(df) ==
    IF df.has_date THEN CastQuality(df, "Int64") ELSE df

\* api.py:249-254 for the first n periods of self.periods, in order.
RECURSIVE InvalidatePeriods(_, _, _, _)
InvalidatePeriods(self, parameter_set, n, fs) ==
    IF n = 0 THEN fs
    ELSE LET before == InvalidatePeriods(self, parameter_set, n - 1, fs)
             storage == hdf5(self.storage,
                             <<parameter_set, self.resolution,
                               PeriodValue(self.periods[n])>>)
             r == invalidate(storage, before)
         IN  [files |-> r.files, dir_exists |-> r.dir_exists]

\* DWDObservationData._invalidate_storage, api.py:239-254.  The first
\* statement unpacks its argument into (parameter, parameter_set); the step
\* passes the parameter-set enumeration member it was given
\* (observations.py:166), and unpacking a non-iterable raises TypeError.
invalidate_storage(self, parameter, fs) ==
    IF parameter.kind /= "pair"
    THEN [raised |-> "TypeError", files |-> fs.files, dir_exists |-> fs.dir_exists]
    ELSE LET after == InvalidatePeriods(self, parameter.parameter_set.value,
                                        Len(self.periods), fs)
         IN  [raised |-> "none", files |-> after.files,
              dir_exists |-> after.dir_exists]

\* The handle of a step that has none (self.storage is None).
NoHandle == [identifiers |-> <<>>, source |-> "none"]

\* Mutant: the test of observations.py:182 is gone, every fetched table is
\* handed to store().
Acquire_AlwaysStore(self, station_id, parameter, storage, fs, collab) ==
    LET got == get_data(self, station_id, parameter, <<>>, collab)
    IN  IF got.raised /= "none"
        THEN [raised |-> got.raised, df |-> EmptyFrame, files |-> fs.files,
              dir_exists |-> fs.dir_exists, fetch_calls |-> got.fetch_calls]
        ELSE LET st == store(storage, station_id, coerce_field_types(got.df), fs)
             IN  [raised |-> st.raised, df |-> st.df, files |-> st.files,
                  dir_exists |-> st.dir_exists,
                  fetch_calls |-> got.fetch_calls]

\* observations.py:173-185: fetch, coerce, store if persistence is on.
\* store() casts the frame in place, so the frame returned is the cast one.
Acquire(self, station_id, parameter, storage, fs, collab) ==
    LET got == get_data(self, station_id, parameter, <<>>, collab)  \* line 178
    IN  IF got.raised /= "none"
        THEN [raised |-> got.raised, df |-> EmptyFrame, files |-> fs.files,
              dir_exists |-> fs.dir_exists, fetch_calls |-> got.fetch_calls]
        ELSE
        LET coerced == coerce_field_types(got.df)                     \* line 180
        IN  IF self.storage.configured /\ self.storage.persist        \* line 182
            THEN LET st == store(storage, station_id, coerced, fs)
                 IN  [raised |-> st.raised, df |-> st.df, files |-> st.files,
                      dir_exists |-> st.dir_exists,
                      fetch_calls |-> got.fetch_calls]
            ELSE [raised |-> "none", df |-> coerced, files |-> fs.files,
                  dir_exists |-> fs.dir_exists, fetch_calls |-> got.fetch_calls]

\* ObservationDataCore._collect_data(self, station_id, parameter),
\* observations.py:146-185, for a parameter-set enumeration member.
collect_data_step(self, station_id, parameter, fs, collab) ==
    IF ~self.storage.configured                                      \* line 160
    THEN [handle |-> NoHandle]
         @@ Acquire(self, station_id, parameter, NoHandle, fs, collab)
    ELSE
    LET storage == hdf5(self.storage, <<parameter.value>>)            \* line 161
        inv == IF self.storage.invalidate                             \* line 165
               THEN invalidate_storage(self, parameter, fs)
               ELSE [raised |-> "none", files |-> fs.files,
                     dir_exists |-> fs.dir_exists]
        fs1 == [files |-> inv.files, dir_exists |-> inv.dir_exists]
        hit == restore(storage, station_id, fs1)                      \* line 168
    IN  IF inv.raised /= "none"
        THEN [handle |-> storage, raised |-> inv.raised, df |-> EmptyFrame,
              files |-> inv.files, dir_exists |-> inv.dir_exists,
              fetch_calls |-> <<>>]
        ELSE IF hit.raised /= "none"
        THEN [handle |-> storage, raised |-> hit.raised, df |-> EmptyFrame,
              files |-> fs1.files, dir_exists |-> fs1.dir_exists,
              fetch_calls |-> <<>>]
        ELSE IF ~IsEmpty(hit.df)                                      \* line 170
        THEN [handle |-> storage, raised |-> "none", df |-> hit.df,
              files |-> fs1.files, dir_exists |-> fs1.dir_exists,
              fetch_calls |-> <<>>]
        ELSE [handle |-> storage]
             @@ Acquire(self, station_id, parameter, storage, fs1, collab)

\* Cache directories a request can find: no file, or files that hold a slice
\* of every station.
StepOldFiles ==
    {f \in OldFiles : \A p \in DOMAIN f : Cardinality(DOMAIN f[p]) = Cardinality(StationIds)}

\* A request object after construction, and the cache directory as found.
StepInit ==
    /\ request \in [storage : {NoStorage} \cup StorageAdapters,
                    resolution : Resolutions,
                    periods : PeriodLists]
    /\ files \in StepOldFiles
    /\ dir_exists = (files /= <<>>)
    /\ step = NoCall
    /\ prev_step = NoCall
    /\ last = NoCall
    /\ prev = NoCall
    /\ MergeIdle
    /\ InitIdle
    /\ CollectIdle
    /\ SitesIdle
    /\ AdapterIdle

\* The body of ObservationDataCore._collect_data runs for one station and one
\* parameter set while the period loop of the request (api.py:183) stands at
\* period; the body is handed neither the period nor the resolution.
CoreStep ==
    \E station_id \in StationIds, parameter_set \in ParameterSets,
       i \in DOMAIN request.periods, collab \in CollabOutcomes :
        LET r == collect_data_step(request, station_id, EnumMember(parameter_set),
                                   FileSystem, collab)
        IN  /\ files' = r.files
            /\ dir_exists' = r.dir_exists
            /\ step' = [op |-> "step", station_id |-> station_id,
                        parameter_set |-> parameter_set,
                        resolution |-> request.resolution,
                        period |-> request.periods[i],
                        handle |-> r.handle, raised |-> r.raised, df |-> r.df,
                        fetch_calls |-> r.fetch_calls,
                        found |-> DOMAIN files,
                        unlinked |-> DOMAIN files \ DOMAIN r.files]
            /\ prev_step' = IF step.op = "step"
                            THEN [op |-> "step", station_id |-> step.station_id,
                                  parameter_set |-> step.parameter_set,
                                  resolution |-> step.resolution,
                                  period |-> step.period, handle |-> step.handle]
                            ELSE NoCall
            /\ UNCHANGED <<request, last, prev, merge_vars, init_vars, collect_vars, sites_vars, adapter_vars>>

StepNext == CoreStep

SpecStep == StepInit /\ [][StepNext]_vars

----------------------------------------------------------------------------
\* Construction of a request: DWDObservationData.__init__ (api.py:56-128),
\* ObservationDataCore.__init__ (observations.py:66-87), Core.__init__
\* (core.py:20-42).

\* The parameter tokens a caller may write.
Tokens == {"kl", "tmk", "tt_tu", "bogus"}

\* The parameter sets defined for a resolution.
SetsOf(resolution) ==
    CASE resolution = "daily" -> {"kl"}
      [] resolution = "hourly" -> {"tu"}

\* The leaf parameters of a parameter set under a resolution.
LeavesOf(resolution, parameter_set) ==
    CASE resolution = "daily" /\ parameter_set = "kl" -> {"tmk"}
      [] resolution = "hourly" /\ parameter_set = "tu" -> {"tt_tu"}
      [] OTHER -> {}

\* create_parameter_to_parameter_set_combination(parameter, resolution): the
\* (parameter, parameter_set) pair of a token that names a leaf parameter or
\* a whole parameter set valid for the resolution; InvalidParameter otherwise.
create_parameter_to_parameter_set_combination(parameter, resolution) ==
    IF \E ps \in SetsOf(resolution) : parameter \in LeavesOf(resolution, ps)
    THEN LET ps == CHOOSE x \in SetsOf(resolution) :
                        parameter \in LeavesOf(resolution, x)
         IN  [raised |-> "none",
              value |-> [parameter |-> [enum |-> "DWDObservationParameter",
                                        value |-> parameter],
                         parameter_set |-> ps]]
    ELSE IF parameter \in SetsOf(resolution)
    THEN [raised |-> "none",
          value |-> [parameter |-> [enum |-> "DWDObservationParameterSet",
                                    value |-> parameter],
                     parameter_set |-> parameter]]
    ELSE [raised |-> "InvalidParameter"]

\* parse_enumeration_from_template(resolution, DWDObservationResolution).
parse_resolution(resolution) ==
    IF resolution \in Resolutions
    THEN [raised |-> "none", value |-> resolution]
    ELSE [raised |-> "InvalidEnumeration"]

\* parse_enumeration_from_template(period, DWDObservationPeriod).
parse_period(period) ==
    CASE period = "historical" -> [raised |-> "none", value |-> "HISTORICAL"]
      [] period = "recent" -> [raised |-> "none", value |-> "RECENT"]
      [] period = "now" -> [raised |-> "none", value |-> "NOW"]
      [] OTHER -> [raised |-> "InvalidEnumeration"]

\* DWDObservationData._parse_parameter, api.py:130-135.
parse_parameter(self, parameter) ==
    create_parameter_to_parameter_set_combination(parameter, self.resolution)

\* Mutant: the try/except around _parse_parameter is gone, the first token
\* that does not resolve ends the parse.
RECURSIVE parse_parameters_NoCatch(_, _)
parse_parameters_NoCatch(self, parameters) ==
    IF parameters = <<>>
    THEN [raised |-> "none", parameters |-> <<>>, log |-> <<>>]
    ELSE LET n == Len(parameters)
             before == parse_parameters_NoCatch(self, SubSeq(parameters, 1, n - 1))
             r == parse_parameter(self, parameters[n])
         IN  IF before.raised /= "none" THEN before
             ELSE IF r.raised /= "none"
             THEN [before EXCEPT !.raised = r.raised]
             ELSE [before EXCEPT !.parameters = Append(@, r.value)]

\* ObservationDataCore._parse_parameters, observations.py:48-57: the tokens
\* are taken in order; a resolved pair is appended, InvalidParameter is
\* caught and logged, any other exception leaves the method.
RECURSIVE parse_parameters(_, _)
parse_parameters(self, parameters) ==
    IF parameters = <<>>
    THEN [raised |-> "none", parameters |-> <<>>, log |-> <<>>]
    ELSE LET n == Len(parameters)
             before == parse_parameters(self, SubSeq(parameters, 1, n - 1))
             r == parse_parameter(self, parameters[n])
         IN  IF before.raised /= "none" THEN before
             ELSE IF r.raised = "InvalidParameter"
             THEN [before EXCEPT !.log = Append(@, parameters[n])]
             ELSE IF r.raised /= "none"
             THEN [before EXCEPT !.raised = r.raised]
             ELSE [before EXCEPT !.parameters = Append(@, r.value)]

\* ObservationDataCore._parse_station_ids, observations.py:44-46: every id,
\* written as int or as text, becomes an int.
parse_station_ids(station_ids) ==
    [i \in DOMAIN station_ids |-> station_ids[i].n]

\* An optional date argument: <<>> is None, <<x>> a date-like value.
DateArgs == {<<>>} \cup {<<[kind |-> "str", day |-> d]>> : d \in Dates}

\* Timestamp(dateparser.parse(str(x))), core.py:26, 28.
ToTimestamp(x) == [kind |-> "Timestamp", day |-> x.day]

\* Mutant: the comparison of core.py:38 is gone.
core_init_NoCheck(start_date, end_date) ==
    LET s0 == IF start_date /= <<>> THEN <<ToTimestamp(start_date[1])>> ELSE <<>>
        e0 == IF end_date /= <<>> THEN <<ToTimestamp(end_date[1])>> ELSE <<>>
        s1 == IF s0 = <<>> THEN e0 ELSE s0
        e1 == IF e0 = <<>> THEN s1 ELSE e0
    IN  [raised |-> "none", start_date |-> s1, end_date |-> e1]

\* Mutant: a bound that was not given stays unset (core.py:32-36 are gone).
core_init_NoBroadcast(start_date, end_date) ==
    LET s0 == IF start_date /= <<>> THEN <<ToTimestamp(start_date[1])>> ELSE <<>>
        e0 == IF end_date /= <<>> THEN <<ToTimestamp(end_date[1])>> ELSE <<>>
    IN  IF s0 /= <<>> /\ e0 /= <<>> /\ s0[1].day > e0[1].day
        THEN [raised |-> "StartDateEndDateError"]
        ELSE [raised |-> "none", start_date |-> s0, end_date |-> e0]

\* Core.__init__, core.py:20-42.
core_init(start_date, end_date) ==
    LET s0 == IF start_date /= <<>> THEN <<ToTimestamp(start_date[1])>> ELSE <<>>
        e0 == IF end_date /= <<>> THEN <<ToTimestamp(end_date[1])>> ELSE <<>>
        s1 == IF s0 = <<>> THEN e0 ELSE s0                  \* core.py:32-33
        e1 == IF e0 = <<>> THEN s1 ELSE e0                  \* core.py:35-36
    IN  IF s0 /= <<>> \/ e0 /= <<>>                         \* core.py:30
        THEN IF s1[1].day > e1[1].day                       \* core.py:38
             THEN [raised |-> "StartDateEndDateError"]
             ELSE [raised |-> "none", start_date |-> s1, end_date |-> e1]
        ELSE [raised |-> "none", start_date |-> s0, end_date |-> e0]

\* n copies of x.
RECURSIVE Repeat(_, _)
Repeat(x, n) == IF n = 0 THEN <<>> ELSE <<x>> \o Repeat(x, n - 1)

\* How often x occurs in the sequence s.
Count(s, x) == Cardinality({i \in DOMAIN s : s[i] = x})

\* sorted(...) of a list of DWDObservationPeriod members, in enumeration order.
SortPeriods(s) ==
    Repeat(AllPeriods[1], Count(s, AllPeriods[1]))
    \o Repeat(AllPeriods[2], Count(s, AllPeriods[2]))
    \o Repeat(AllPeriods[3], Count(s, AllPeriods[3]))

\* parse_enumeration(DWDObservationPeriod, periods): every token parsed, the
\* first token that is no period raises InvalidEnumeration.
parse_periods(tokens) ==
    IF \E i \in DOMAIN tokens : parse_period(tokens[i]).raised /= "none"
    THEN [raised |-> "InvalidEnumeration"]
    ELSE [raised |-> "none",
          value |-> [i \in DOMAIN tokens |-> parse_period(tokens[i]).value]]

\* Mutant: the caller's periods are parsed even when a date is given.
init_periods_NoDefault(start_date, end_date, period_tokens) ==
    IF period_tokens = <<>>
    THEN [raised |-> "none", value |-> AllPeriods]
    ELSE LET parsed == parse_periods(period_tokens)
         IN  IF parsed.raised /= "none" THEN parsed
             ELSE [raised |-> "none", value |-> SortPeriods(parsed.value)]

\* api.py:108-115.  The test reads the constructor's arguments.
init_periods(start_date, end_date, period_tokens) ==
    IF start_date /= <<>> \/ end_date /= <<>> \/ period_tokens = <<>>
    THEN [raised |-> "none", value |-> AllPeriods]
    ELSE LET parsed == parse_periods(period_tokens)
         IN  IF parsed.raised /= "none" THEN parsed
             ELSE [raised |-> "none", value |-> SortPeriods(parsed.value)]

\* Mutant: only the caller's flag counts.
init_tidy_data_CallerOnly(parameters, tidy_data) == tidy_data

\* api.py:117-127.
init_tidy_data(parameters, tidy_data) ==
    \/ Len(parameters) > 1
    \/ \E i \in DOMAIN parameters :
            parameters[i].parameter.enum /= "DWDObservationParameterSet"
    \/ tidy_data

\* The period arguments tried: None or an empty list, and lists of tokens.
PeriodArgs ==
    {<<>>, <<"recent">>, <<"recent", "historical">>, <<"now", "bogus">>,
     <<"now", "historical", "now">>, <<"now">>}

\* The constructor calls tried.  No storage adapter is handed in.
ConstructorCalls ==
    [station_ids : {<<[kind |-> "str", n |-> 1], [kind |-> "int", n |-> 2]>>},
     parameters : SeqUpTo(Tokens, MaxTokens),
     resolution : Resolutions \cup {"bogus"},
     periods : PeriodArgs,
     start_date : DateArgs,
     end_date : DateArgs,
     storage : {NoStorage},
     tidy_data : BOOLEAN]

ConstructInit ==
    /\ pc_init = "resolution"
    /\ call_args \in ConstructorCalls
    /\ obj = <<>>
    /\ raised_init = "none"
    /\ log = <<>>
    /\ MergeIdle
    /\ StoreIdle
    /\ StepIdle
    /\ CollectIdle
    /\ SitesIdle
    /\ AdapterIdle

\* An exception leaves the constructor.
Raise(exception) ==
    /\ pc_init' = "raised"
    /\ raised_init' = exception

\* Mutant: the resolution token is stored as written and not validated.
InitResolution_Unvalidated ==
    /\ pc_init = "resolution"
    /\ obj' = [resolution |-> call_args.resolution]
    /\ pc_init' = "core"
    /\ UNCHANGED <<raised_init, call_args, log, merge_vars, store_vars, step_vars, collect_vars, sites_vars, adapter_vars>>

\* api.py:94-97: the resolution token is parsed.
InitResolution ==
    /\ pc_init = "resolution"
    /\ LET r == parse_resolution(call_args.resolution)
       IN  IF r.raised /= "none"
           THEN Raise(r.raised) /\ UNCHANGED obj
           ELSE /\ obj' = [resolution |-> r.value]
                /\ pc_init' = "core"
                /\ UNCHANGED raised_init
    /\ UNCHANGED <<call_args, log, merge_vars, store_vars, step_vars, collect_vars, sites_vars, adapter_vars>>

\* observations.py:75 and core.py:20-42: the date range.
InitCore ==
    /\ pc_init = "core"
    /\ LET r == core_init(call_args.start_date, call_args.end_date)
       IN  IF r.raised /= "none"
           THEN Raise(r.raised) /\ UNCHANGED obj
           ELSE /\ obj' = obj @@ [start_date |-> r.start_date,
                                  end_date |-> r.end_date]
                /\ pc_init' = "parameters"
                /\ UNCHANGED raised_init
    /\ UNCHANGED <<call_args, log, merge_vars, store_vars, step_vars, collect_vars, sites_vars, adapter_vars>>

\* Mutant: the test of observations.py:80-81 is gone.
InitParameters_NoEmptyCheck ==
    /\ pc_init = "parameters"
    /\ LET r == parse_parameters(obj, call_args.parameters)
       IN  /\ log' = log \o r.log
           /\ obj' = obj @@ [station_ids |-> parse_station_ids(call_args.station_ids),
                             parameters |-> r.parameters]
           /\ IF r.raised /= "none"
              THEN Raise(r.raised)
              ELSE pc_init' = "storage" /\ UNCHANGED raised_init
    /\ UNCHANGED <<call_args, merge_vars, store_vars, step_vars, collect_vars, sites_vars, adapter_vars>>

\* observations.py:77-81: station ids and parameters; an empty parameter
\* list raises NoParametersFound.
InitParameters ==
    /\ pc_init = "parameters"
    /\ LET r == parse_parameters(obj, call_args.parameters)
       IN  /\ log' = log \o r.log
           /\ obj' = obj @@ [station_ids |-> parse_station_ids(call_args.station_ids),
                             parameters |-> r.parameters]
           /\ IF r.raised /= "none"
              THEN Raise(r.raised)
              ELSE IF r.parameters = <<>>
              THEN Raise("NoParametersFound")
              ELSE pc_init' = "storage" /\ UNCHANGED raised_init
    /\ UNCHANGED <<call_args, merge_vars, store_vars, step_vars, collect_vars, sites_vars, adapter_vars>>

\* observations.py:83-87: the storage adapter.  Assigning storage.source
\* runs the property setter of store.py:30-33, whose own assignment to
\* self.source runs it again, without end.
InitStorage ==
    /\ pc_init = "storage"
    /\ IF call_args.storage.configured
       THEN Raise("RecursionError") /\ UNCHANGED obj
       ELSE /\ obj' = obj @@ [storage |-> call_args.storage]
            /\ pc_init' = "periods"
            /\ UNCHANGED raised_init
    /\ UNCHANGED <<call_args, log, merge_vars, store_vars, step_vars, collect_vars, sites_vars, adapter_vars>>

\* api.py:108-128: the period list and the tidy flag.
InitPeriods ==
    /\ pc_init = "periods"
    /\ LET r == init_periods(call_args.start_date, call_args.end_date,
                             call_args.periods)
       IN  IF r.raised /= "none"
           THEN Raise(r.raised) /\ UNCHANGED obj
           ELSE /\ obj' = obj @@ [periods |-> r.value,
                                  tidy_data |-> init_tidy_data(obj.parameters,
                                                               call_args.tidy_data)]
                /\ pc_init' = "constructed"
                /\ UNCHANGED raised_init
    /\ UNCHANGED <<call_args, log, merge_vars, store_vars, step_vars, collect_vars, sites_vars, adapter_vars>>

ConstructNext ==
    InitResolution \/ InitCore \/ InitParameters \/ InitStorage \/ InitPeriods

SpecConstruct == ConstructInit /\ [][ConstructNext]_vars

----------------------------------------------------------------------------
\* A constructed request enters the period loop of
\* DWDObservationData._collect_data for one (station, parameter) pair.

\* The slices tried here: one row on the first date, whose value tells the
\* periods apart.
OneRowSlices ==
    {[has_date |-> TRUE, rows |-> <<[DATE |-> 1, VALUE |-> v]>>] : v \in Vals}

\* The constructor calls tried for the period loop.
PeriodCalls ==
    {c \in ConstructorCalls : /\ c.parameters = <<"kl">>
                              /\ c.resolution = "daily"}

PeriodsInit ==
    /\ pc_init = "resolution"
    /\ call_args \in PeriodCalls
    /\ obj = <<>>
    /\ raised_init = "none"
    /\ log = <<>>
    /\ MergeIdle
    /\ StoreIdle
    /\ StepIdle
    /\ CollectIdle
    /\ SitesIdle
    /\ AdapterIdle

\* check_dwd_observations_parameter_set(parameter_set, resolution, period):
\* the archive has the period for the parameter set under the resolution.
\* Daily data has no NOW period.
check_dwd_observations_parameter_set(parameter_set, resolution, period) ==
    ~(resolution = "daily" /\ period = "NOW")

\* collect_climate_observations_data for one period: the table of the
\* archive, or InvalidParameterCombination when the archive has no such
\* period for the parameter set and resolution.
Collaborator(parameter_set, resolution, period, df) ==
    IF check_dwd_observations_parameter_set(parameter_set, resolution, period)
    THEN [raised |-> "none", df |-> df]
    ELSE [raised |-> "InvalidParameterCombination", df |-> EmptyFrame]

\* api.py:179-183: the accumulated table starts empty and the loop runs over
\* self.periods; the slice of a period is what _get_data (api.py:217-237)
\* makes of the collaborator's answer, fetched[p] being the archive's table.
\* The request has no storage adapter, so the fetches have no effect on the
\* request and are made here at once; an exception that leaves one of them
\* leaves the loop.
BeginPeriodLoop ==
    /\ pc_init = "constructed"
    /\ pc_merge = "idle"
    /\ \E fetched \in [Range(AllPeriods) -> OneRowSlices] :
            LET got == [i \in 1..Len(obj.periods) |->
                          get_data(obj, 1,
                                   EnumMember(obj.parameters[1].parameter_set),
                                   <<>>,
                                   Collaborator(obj.parameters[1].parameter_set,
                                                obj.resolution, obj.periods[i],
                                                fetched[obj.periods[i]]))]
            IN  /\ slices' = [i \in 1..3 |->
                                IF i <= Len(obj.periods) THEN got[i].df
                                ELSE EmptyFrame]
                /\ pc_merge' = IF \A i \in DOMAIN got : got[i].raised = "none"
                               THEN "loop" ELSE "raised"
    /\ periods' = obj.periods
    /\ period_idx' = 1
    /\ parameter_df' = EmptyFrame
    /\ UNCHANGED <<store_vars, step_vars, init_vars, collect_vars, sites_vars, adapter_vars>>

PeriodsNext == ConstructNext \/ BeginPeriodLoop \/ PeriodStep \/ PeriodLoopDone

SpecPeriods == PeriodsInit /\ [][PeriodsNext]_vars

----------------------------------------------------------------------------
\* Collection: ObservationDataCore.collect_data (observations.py:112-144), a
\* generator, with the tail of DWDObservationData._collect_data
\* (api.py:204-215) and collect_safe (observations.py:222-232).

\* parameter_set.name of a DWDObservationParameterSet member.
SetName(parameter_set) ==
    CASE parameter_set = "kl" -> "CLIMATE_SUMMARY"
      [] parameter_set = "tu" -> "TEMPERATURE_AIR"

\* The value columns of a wide table of the parameter set, in column order.
ColumnsOf(resolution, parameter_set) ==
    CASE resolution = "daily" /\ parameter_set = "kl" -> <<"tmk">>
      [] resolution = "hourly" /\ parameter_set = "tu" -> <<"tt_tu">>

\* df.dwd.tidy_up_data(): every value column of the wide table becomes a
\* block of long rows that name the column in PARAMETER.
RECURSIVE tidy_up_data(_, _)
tidy_up_data(df, columns) ==
    IF columns = <<>>
    THEN [has_date |-> df.has_date, rows |-> <<>>]
    ELSE LET rest == tidy_up_data(df, Tail(columns))
         IN  [has_date |-> df.has_date,
              rows |-> [i \in DOMAIN df.rows |->
                            df.rows[i] @@ [PARAMETER |-> Head(columns)]]
                       \o rest.rows]

\* parameter_df.insert(2, PARAMETER_SET, name), api.py:207.
insert_parameter_set(df, name) ==
    [has_date |-> df.has_date,
     rows |-> [i \in DOMAIN df.rows |-> df.rows[i] @@ [PARAMETER_SET |-> name]]]

\* api.py:204-215, the end of DWDObservationData._collect_data: merged is the
\* table the period loop has built.  Selecting the PARAMETER column of a
\* table that was not reshaped raises KeyError.
finish_collect_data(self, parameter, merged) ==
    LET tidy == IF self.tidy_data
                THEN insert_parameter_set(
                         tidy_up_data(merged, ColumnsOf(self.resolution,
                                                        parameter.parameter_set)),
                         SetName(parameter.parameter_set))
                ELSE merged
    IN  IF parameter.parameter.enum = "DWDObservationParameterSet"
        THEN [raised |-> "none", df |-> tidy]
        ELSE IF ~self.tidy_data
        THEN [raised |-> "KeyError", df |-> tidy]
        ELSE [raised |-> "none",
              df |-> [has_date |-> tidy.has_date,
                      rows |-> SelectSeq(tidy.rows,
                                  LAMBDA r : r.PARAMETER = parameter.parameter.value)]]

\* Mutant: the frames are put together last to first.
RECURSIVE Concat_Reversed(_)
Concat_Reversed(frames) ==
    IF frames = <<>> THEN EmptyFrame
    ELSE LET rest == Concat_Reversed(Tail(frames))
         IN  [has_date |-> Head(frames).has_date \/ rest.has_date,
              rows |-> rest.rows \o Head(frames).rows]

\* pd.concat(frames), observations.py:127: the rows of all frames in list
\* order, the columns of all frames.
RECURSIVE Concat(_)
Concat(frames) ==
    IF frames = <<>> THEN EmptyFrame
    ELSE LET rest == Concat(Tail(frames))
         IN  [has_date |-> Head(frames).has_date \/ rest.has_date,
              rows |-> Head(frames).rows \o rest.rows]

\* Mutant: without a DATE column the filter leaves no row.
date_filter_NoDateNoRows(self, station_df) ==
    IF self.start_date = <<>>
    THEN station_df
    ELSE IF ~station_df.has_date
    THEN [has_date |-> FALSE, rows |-> <<>>]
    ELSE [has_date |-> TRUE,
          rows |-> SelectSeq(station_df.rows,
                      LAMBDA r : /\ "DATE" \in DOMAIN r
                                 /\ r.DATE >= self.start_date[1].day
                                 /\ r.DATE <= self.end_date[1].day)]

\* Mutant: the upper bound of the date filter is exclusive.
date_filter_EndExclusive(self, station_df) ==
    IF self.start_date = <<>> \/ ~station_df.has_date
    THEN station_df
    ELSE [has_date |-> TRUE,
          rows |-> SelectSeq(station_df.rows,
                      LAMBDA r : /\ "DATE" \in DOMAIN r
                                 /\ r.DATE >= self.start_date[1].day
                                 /\ r.DATE < self.end_date[1].day)]

\* observations.py:132-139: with a start date, keep the rows whose DATE lies
\* in [start_date, end_date]; station_df[DATE] raises KeyError when there is
\* no DATE column and the table is left alone.  A row without a date (NaT)
\* compares false.
date_filter(self, station_df) ==
    IF self.start_date = <<>> \/ ~station_df.has_date
    THEN station_df
    ELSE [has_date |-> TRUE,
          rows |-> SelectSeq(station_df.rows,
                      LAMBDA r : /\ "DATE" \in DOMAIN r
                                 /\ r.DATE >= self.start_date[1].day
                                 /\ r.DATE <= self.end_date[1].day)]

\* The dated rows on the dates of D, in ascending date order.
RECURSIVE RowsOfDates(_)
RowsOfDates(D) ==
    IF D = {} THEN <<>>
    ELSE LET d == CHOOSE x \in D : \A y \in D : x >= y
         IN  Append(RowsOfDates(D \ {d}), [DATE |-> d, VALUE |-> 0])

\* The tables the period loop can hand to api.py:204 for one
\* (station, parameter) pair: the empty frame, a table without DATE column,
\* and wide tables with one row per date.
MergedTables ==
    {EmptyFrame, [has_date |-> FALSE, rows |-> <<[VALUE |-> 0]>>]} \cup
    {[has_date |-> TRUE, rows |-> RowsOfDates(D)] : D \in SUBSET Dates}

\* The table of the archive for one station: every row carries the id.
ForStation(df, station_id) ==
    [has_date |-> df.has_date,
     rows |-> [i \in DOMAIN df.rows |-> df.rows[i] @@ [STATION_ID |-> station_id]]]

\* The station id lists tried for collection, in the caller's order.
CollectStationIds ==
    {<<[kind |-> "str", n |-> 1], [kind |-> "int", n |-> 2]>>,
     <<[kind |-> "int", n |-> 2], [kind |-> "str", n |-> 1]>>}

\* The constructor calls tried for collection.
CollectCalls ==
    {[c EXCEPT !.station_ids = ids] :
        c \in {x \in ConstructorCalls :
                    /\ x.parameters \in {<<"kl">>, <<"tmk">>, <<"kl", "tmk">>}
                    /\ x.resolution = "daily"
                    /\ x.periods = <<>>},
        ids \in CollectStationIds}

CollectInit ==
    /\ pc_init = "resolution"
    /\ call_args \in CollectCalls
    /\ obj = <<>>
    /\ raised_init = "none"
    /\ log = <<>>
    /\ MergeIdle
    /\ StoreIdle
    /\ StepIdle
    /\ CollectIdle
    /\ SitesIdle
    /\ AdapterIdle

\* collect_data(), observations.py:112: calling a generator function makes
\* a generator that has not run yet; nothing of an earlier generator is kept.
\* run counts the calls; work is the record of the calls of _collect_data
\* (observations.py:123) made so far, which only grows.
call_collect(run, work) ==
    [pc |-> "created", station_idx |-> 1, merged |-> <<>>,
     parameter_dfs |-> <<>>, station_df |-> EmptyFrame, yielded |-> <<>>,
     result |-> NoCall, run |-> run, work |-> work]

\* The calls of _collect_data the loop body makes for the station at
\* c.station_idx, in the order of self.parameters (observations.py:122-123).
HookCalls(self, c) ==
    [j \in DOMAIN self.parameters |->
        [run |-> c.run, station_id |-> self.station_ids[c.station_idx],
         parameter |-> j]]

\* Mutant: an empty station table is yielded like any other
\* (observations.py:141-142 are gone).
station_body_YieldEmpty(self, c, merged) ==
    LET dfs == [j \in DOMAIN self.parameters |->
                    finish_collect_data(self, self.parameters[j], merged[j])]
        station_df == Concat([j \in DOMAIN dfs |-> dfs[j].df])
        filtered == date_filter(self, station_df)
    IN  [c EXCEPT !.pc = "yielded",
                  !.station_idx = @ + 1,
                  !.merged = merged,
                  !.work = @ \o HookCalls(self, c),
                  !.parameter_dfs = [j \in DOMAIN dfs |-> dfs[j].df],
                  !.station_df = station_df,
                  !.yielded = Append(@, filtered)]

\* observations.py:119-144, the loop body for one station: the per-parameter
\* tables are collected and concatenated, filtered by date, and the result
\* is yielded unless it is empty.  merged[j] is the table of the period loop
\* for the station and the j-th parameter.  No humanized column names are
\* asked for.
station_body(self, c, merged) ==
    LET dfs == [j \in DOMAIN self.parameters |->
                    finish_collect_data(self, self.parameters[j], merged[j])]
        station_df == Concat([j \in DOMAIN dfs |-> dfs[j].df])
        filtered == date_filter(self, station_df)
    IN  IF \E j \in DOMAIN dfs : dfs[j].raised /= "none"
        THEN [c EXCEPT !.pc = "raised",
                       !.merged = merged,
                       !.work = @ \o HookCalls(self, c)]
        ELSE IF IsEmpty(filtered)
        THEN [c EXCEPT !.station_idx = @ + 1,
                       !.merged = merged,
                       !.work = @ \o HookCalls(self, c),
                       !.parameter_dfs = [j \in DOMAIN dfs |-> dfs[j].df],
                       !.station_df = station_df]
        ELSE [c EXCEPT !.pc = "yielded",
                       !.station_idx = @ + 1,
                       !.merged = merged,
                       !.work = @ \o HookCalls(self, c),
                       !.parameter_dfs = [j \in DOMAIN dfs |-> dfs[j].df],
                       !.station_df = station_df,
                       !.yielded = Append(@, filtered)]

\* Mutant: collect_data is no generator; the call itself runs the body for
\* the first station.
CallCollect_Eager ==
    /\ pc_init = "constructed"
    /\ collect.pc = "idle"
    /\ \E archive \in [DOMAIN obj.parameters -> MergedTables] :
            collect' = station_body(obj, call_collect(1, <<>>),
                          [j \in DOMAIN obj.parameters |->
                              ForStation(archive[j], obj.station_ids[1])])
    /\ UNCHANGED <<merge_vars, store_vars, step_vars, init_vars, sites_vars, adapter_vars>>

\* collect_data() is called on the constructed request for the first time.
CallCollect ==
    /\ pc_init = "constructed"
    /\ collect.pc = "idle"
    /\ collect' = call_collect(1, <<>>)
    /\ UNCHANGED <<merge_vars, store_vars, step_vars, init_vars, sites_vars, adapter_vars>>

\* The generator runs the loop body for the next station.
StationBody ==
    /\ collect.pc = "running"
    /\ collect.station_idx <= Len(obj.station_ids)
    /\ \E archive \in [DOMAIN obj.parameters -> MergedTables] :
            collect' = station_body(obj, collect,
                          [j \in DOMAIN obj.parameters |->
                              ForStation(archive[j],
                                         obj.station_ids[collect.station_idx])])
    /\ UNCHANGED <<merge_vars, store_vars, step_vars, init_vars, sites_vars, adapter_vars>>

\* The consumer asks the generator for the next element: it runs from its
\* start, or on from the yield it is suspended at.
Resume ==
    /\ collect.pc \in {"created", "yielded"}
    /\ collect' = [collect EXCEPT !.pc = "running"]
    /\ UNCHANGED <<merge_vars, store_vars, step_vars, init_vars, sites_vars, adapter_vars>>

\* The station loop is exhausted, the generator ends.
Exhausted ==
    /\ collect.pc = "running"
    /\ collect.station_idx > Len(obj.station_ids)
    /\ collect' = [collect EXCEPT !.pc = "done"]
    /\ UNCHANGED <<merge_vars, store_vars, step_vars, init_vars, sites_vars, adapter_vars>>

\* Mutant: the test of observations.py:229-230 is gone.
collect_safe_NoTest(data) == [raised |-> "none", value |-> Concat(data)]

\* collect_safe, observations.py:227-232, on the list of yielded tables.
collect_safe(data) ==
    IF data = <<>>
    THEN [raised |-> "ValueError"]
    ELSE [raised |-> "none", value |-> Concat(data)]

\* collect_safe has drained the generator and ends.
CollectSafeReturn ==
    /\ collect.pc = "done"
    /\ collect' = [collect EXCEPT !.pc = "returned",
                                  !.result = collect_safe(collect.yielded)]
    /\ UNCHANGED <<merge_vars, store_vars, step_vars, init_vars, sites_vars, adapter_vars>>

CollectNext ==
    \/ ConstructNext
    \/ CallCollect
    \/ StationBody
    \/ Resume
    \/ Exhausted
    \/ CollectSafeReturn

SpecCollect == CollectInit /\ [][CollectNext]_vars

----------------------------------------------------------------------------
\* The consumer's side of collect_data: the generator runs only when asked
\* for an element, can be dropped at any yield, and collect_data can be
\* called again on the same request.

\* The constructor calls tried here: one parameter, no date range.
PullCalls ==
    {c \in CollectCalls : /\ c.parameters = <<"kl">>
                          /\ c.start_date = <<>>
                          /\ c.end_date = <<>>}

PullInit ==
    /\ pc_init = "resolution"
    /\ call_args \in PullCalls
    /\ obj = <<>>
    /\ raised_init = "none"
    /\ log = <<>>
    /\ MergeIdle
    /\ StoreIdle
    /\ StepIdle
    /\ CollectIdle
    /\ SitesIdle
    /\ AdapterIdle

\* The consumer drops the generator before it is exhausted: the generator
\* is closed where it stands and runs no more of the loop.
Abandon ==
    /\ collect.pc \in {"created", "yielded"}
    /\ collect' = [collect EXCEPT !.pc = "closed"]
    /\ UNCHANGED <<merge_vars, store_vars, step_vars, init_vars, sites_vars, adapter_vars>>

\* collect_data() is called again on the request once the earlier generator
\* is finished or dropped.
CallAgain ==
    /\ collect.pc \in {"done", "closed"}
    /\ collect.run < MaxRuns
    /\ collect' = call_collect(collect.run + 1, collect.work)
    /\ UNCHANGED <<merge_vars, store_vars, step_vars, init_vars, sites_vars, adapter_vars>>

PullNext ==
    \/ ConstructNext
    \/ CallCollect
    \/ Resume
    \/ StationBody
    \/ Exhausted
    \/ Abandon
    \/ CallAgain

SpecPull == PullInit /\ [][PullNext]_vars

----------------------------------------------------------------------------
\* The storage adapter: StorageAdapter (store.py:23-51), whose attribute
\* source is a property, and the request constructor that is handed one
\* (observations.py:83-86).

\* The members of the Source enumeration.
Source == {"DWD"}

\* The values assigned to the attribute: a member, None, and another value.
SourceValues == Source \cup {"None", "bogus"}

\* What 'x in Source' does with an x that is no member depends on the
\* interpreter: EnumMeta.__contains__ answers False, or raises TypeError.
Interpreters == {"contains_false", "contains_raises"}

\* The property getter, store.py:24-26: return self.source reads the
\* property again, which calls the getter again.
RECURSIVE source_getter(_)
source_getter(depth) ==
    IF depth > RecursionLimit THEN [raised |-> "RecursionError"]
    ELSE source_getter(depth + 1)                                \* line 26

\* The property setter, store.py:28-33: the membership test, then
\* self.source = source, which is an assignment to the property and calls
\* the setter again with the same value.
RECURSIVE source_setter(_, _, _)
source_setter(interpreter, source, depth) ==
    IF depth > RecursionLimit THEN [raised |-> "RecursionError"]
    ELSE IF source \notin Source                                  \* line 30
    THEN IF interpreter = "contains_raises"
         THEN [raised |-> "TypeError"]
         ELSE [raised |-> "ValueError"]                          \* line 31
    ELSE source_setter(interpreter, source, depth + 1)           \* line 33

\* StorageAdapter.__init__, store.py:35-44: self.source = None goes through
\* the setter first; the other attributes are set after it.
StorageAdapter_init(interpreter, persist_arg, invalidate_arg) ==
    LET r == source_setter(interpreter, "None", 1)                \* line 41
    IN  [raised |-> r.raised,
         attributes |-> IF r.raised = "none"
                        THEN [persist |-> persist_arg, invalidate |-> invalidate_arg]
                        ELSE <<>>]

\* The constructor calls an adapter is passed to.
AdapterCalls == PullCalls

AdapterInit ==
    /\ adapter \in [op : {"class"}, interpreter : Interpreters]
    /\ InitIdle
    /\ MergeIdle
    /\ StoreIdle
    /\ StepIdle
    /\ CollectIdle
    /\ SitesIdle

\* StorageAdapter(persist, invalidate) is called.  When the constructor
\* raises, the instance it was working on has no attribute set.
NewStorageAdapter ==
    /\ adapter.op = "class"
    /\ \E persist_arg \in BOOLEAN, invalidate_arg \in BOOLEAN :
            LET r == StorageAdapter_init(adapter.interpreter, persist_arg,
                                         invalidate_arg)
            IN  adapter' = [op |-> "instance",
                            interpreter |-> adapter.interpreter,
                            persist |-> persist_arg,
                            invalidate |-> invalidate_arg,
                            attributes |-> r.attributes,
                            last |-> [op |-> "__init__", value |-> "None",
                                      raised |-> r.raised]]
    /\ UNCHANGED <<merge_vars, store_vars, step_vars, init_vars, collect_vars,
                   sites_vars>>

\* adapter.source is read.
ReadSource ==
    /\ adapter.op = "instance"
    /\ adapter' = [adapter EXCEPT !.last =
                        [op |-> "get", value |-> "None",
                         raised |-> source_getter(1).raised]]
    /\ UNCHANGED <<merge_vars, store_vars, step_vars, init_vars, collect_vars,
                   sites_vars>>

\* adapter.source = value is executed.
AssignSource ==
    /\ adapter.op = "instance"
    /\ \E value \in SourceValues :
            adapter' = [adapter EXCEPT !.last =
                            [op |-> "set", value |-> value,
                             raised |-> source_setter(adapter.interpreter,
                                                      value, 1).raised]]
    /\ UNCHANGED <<merge_vars, store_vars, step_vars, init_vars, collect_vars,
                   sites_vars>>

\* The instance is passed to the request constructor as storage; the
\* instance is one the caller holds although its constructor never returns.
PassToRequest ==
    /\ adapter.op = "instance"
    /\ pc_init = "idle"
    /\ \E c \in AdapterCalls :
            call_args' = [c EXCEPT !.storage = [configured |-> TRUE]]
    /\ pc_init' = "resolution"
    /\ UNCHANGED <<obj, raised_init, log, adapter>>
    /\ UNCHANGED <<merge_vars, store_vars, step_vars, collect_vars, sites_vars>>

\* The request constructor runs as far as the assignment of
\* observations.py:84, which a request with an adapter does not get past.
AdapterNext ==
    \/ NewStorageAdapter
    \/ ReadSource
    \/ AssignSource
    \/ PassToRequest
    \/ InitResolution
    \/ InitCore
    \/ InitParameters
    \/ InitStorage

SpecAdapter == AdapterInit /\ [][AdapterNext]_vars

----------------------------------------------------------------------------
\* Station queries: SitesCore (sites.py).  A station table is the sequence
\* of its rows.  All stations and the query point lie on the meridian
\* LON = 0, so the distance between two points is the difference of their
\* latitudes.

KM_EARTH_RADIUS == 6371

Latitudes == 0..MaxLat

Abs(x) == IF x < 0 THEN -x ELSE x

Min(a, b) == IF a <= b THEN a ELSE b

\* The validity interval of a station: the whole time, or the last day only.
Interval(late) ==
    IF late THEN [FROM_DATE |-> MaxDate, TO_DATE |-> MaxDate]
    ELSE [FROM_DATE |-> 1, TO_DATE |-> MaxDate]

\* The tables _metadata() can hand back: up to MaxStations stations, the
\* station id being the row's position, the first j of them opened on the
\* last day.
MetadataTables ==
    UNION {{[i \in 1..n |-> [STATION_ID |-> i, LAT |-> lat[i], LON |-> 0,
                             FROM_DATE |-> Interval(i <= j).FROM_DATE,
                             TO_DATE |-> Interval(i <= j).TO_DATE]] :
                lat \in [1..n -> Latitudes], j \in 0..n} :
           n \in 0..MaxStations}

\* SitesCore.all, sites.py:40-57: the stations whose validity covers the
\* request's dates.
all(self) ==
    LET m1 == IF self.start_date /= <<>>
              THEN SelectSeq(self.metadata,
                             LAMBDA r : r.FROM_DATE <= self.start_date[1].day)
              ELSE self.metadata
    IN  IF self.end_date /= <<>>
        THEN SelectSeq(m1, LAMBDA r : r.TO_DATE >= self.end_date[1].day)
        ELSE m1

\* A distance beyond every distance between two points.
Infinity == 2 * MaxLat + 1

\* The distance in radians between a station and the query point.
Distance(row, latitude) == Abs(row.LAT - latitude)

\* The positions of the rows of table in the order of their distance to the
\* query point, nearest first, rows at the same distance in row order.
RECURSIVE NearestFirst(_, _, _)
NearestFirst(table, latitude, left) ==
    IF left = {} THEN <<>>
    ELSE LET i == CHOOSE x \in left : \A y \in left :
                        \/ Distance(table[x], latitude) < Distance(table[y], latitude)
                        \/ /\ Distance(table[x], latitude) = Distance(table[y], latitude)
                           /\ x <= y
         IN  <<i>> \o NearestFirst(table, latitude, left \ {i})

\* derive_nearest_neighbours(latitudes, longitudes, coordinates, number):
\* distances and row positions of the number nearest rows, nearest first;
\* beyond the last row the distance is infinite and the position is one
\* past the table.
derive_nearest_neighbours(table, latitude, number) ==
    LET order == NearestFirst(table, latitude, DOMAIN table)
    IN  [distances |-> [i \in 1..number |->
                            IF i <= Len(table)
                            THEN Distance(table[order[i]], latitude)
                            ELSE Infinity],
         indices |-> [i \in 1..number |->
                            IF i <= Len(table) THEN order[i] ELSE Len(table) + 1]]

\* Mutant: the test of sites.py:77-78 is gone.
nearby_number_NoTest(self, latitude, num_stations_nearby) ==
    LET metadata == all(self)
        nn == derive_nearest_neighbours(metadata, latitude,
                                        IF num_stations_nearby < 0 THEN 0
                                        ELSE num_stations_nearby)
        m == Min(Len(metadata), Len(nn.distances))
    IN  [raised |-> "none",
         df |-> [i \in 1..m |->
                    metadata[nn.indices[i]]
                    @@ [DISTANCE_TO_LOCATION |-> nn.distances[i] * KM_EARTH_RADIUS]]]

\* SitesCore.nearby_number, sites.py:59-114.
nearby_number(self, latitude, num_stations_nearby) ==
    IF num_stations_nearby <= 0                                  \* line 77
    THEN [raised |-> "ValueError", df |-> <<>>]
    ELSE LET metadata == all(self)                               \* line 82
             nn == derive_nearest_neighbours(metadata, latitude,
                                             num_stations_nearby)
             m == Min(Len(metadata), num_stations_nearby)        \* line 95
             distances == SubSeq(nn.distances, 1, m)
             indices == SubSeq(nn.indices, 1, m)
         IN  [raised |-> "none",
              df |-> [i \in 1..m |->
                        metadata[indices[i]]
                        @@ [DISTANCE_TO_LOCATION |->
                                distances[i] * KM_EARTH_RADIUS]]] \* lines 100-106

\* SitesCore.nearby_radius, sites.py:116-148.
nearby_radius(self, latitude, max_distance_in_km) ==
    IF max_distance_in_km < 0                                    \* line 136
    THEN [raised |-> "ValueError", df |-> <<>>]
    ELSE LET metadata == all(self)                               \* line 139
             all_nearby_stations ==
                 nearby_number(self, latitude, Len(metadata))    \* line 141
         IN  IF all_nearby_stations.raised /= "none"
             THEN all_nearby_stations
             ELSE [raised |-> "none",
                   df |-> SelectSeq(all_nearby_stations.df,
                             LAMBDA r : r.DISTANCE_TO_LOCATION
                                        <= max_distance_in_km)]   \* lines 143-148

\* The radii tried, in km: negative, zero, and around one and two radians.
RadiusArgs ==
    {-1, 0, KM_EARTH_RADIUS - 1, KM_EARTH_RADIUS, 2 * KM_EARTH_RADIUS}

\* A sites request after construction (sites.py:21-27, core.py:20-42), with
\* no date or with the first day as its range, and the metadata it finds.
SitesInit ==
    /\ \E metadata \in MetadataTables,
          d \in {<<>>, <<[kind |-> "str", day |-> 1]>>} :
            LET dates == core_init(d, d)
            IN  sites = [op |-> "constructed", metadata |-> metadata,
                         start_date |-> dates.start_date,
                         end_date |-> dates.end_date, last |-> NoCall]
    /\ MergeIdle
    /\ StoreIdle
    /\ StepIdle
    /\ InitIdle
    /\ CollectIdle
    /\ AdapterIdle

NearbyNumber ==
    /\ \E latitude \in Latitudes, k \in -1..(MaxStations + 1) :
            LET r == nearby_number(sites, latitude, k)
            IN  sites' = [sites EXCEPT !.last =
                            [op |-> "nearby_number", latitude |-> latitude,
                             num_stations_nearby |-> k,
                             raised |-> r.raised, df |-> r.df]]
    /\ UNCHANGED <<merge_vars, store_vars, step_vars, init_vars, collect_vars,
                   adapter_vars>>

NearbyRadius ==
    /\ \E latitude \in Latitudes, max_km \in RadiusArgs :
            LET r == nearby_radius(sites, latitude, max_km)
            IN  sites' = [sites EXCEPT !.last =
                            [op |-> "nearby_radius", latitude |-> latitude,
                             max_distance_in_km |-> max_km,
                             raised |-> r.raised, df |-> r.df]]
    /\ UNCHANGED <<merge_vars, store_vars, step_vars, init_vars, collect_vars,
                   adapter_vars>>

SitesNext == NearbyNumber \/ NearbyRadius

SpecSites == SitesInit /\ [][SitesNext]_vars

----------------------------------------------------------------------------
\* Claims about the period merge.

\* The rows of df that carry date d, in order.
RowsOn(df, d) == SelectSeq(df.rows, LAMBDA r : r.DATE = d)

\* The positions in the period list whose slice has a row for date d.
Suppliers(d) == {i \in 1..Len(periods) : d \in DateValues(slices[i])}

\* The least element of a non-empty set of numbers.
Least(S) == CHOOSE i \in S : \A j \in S : i <= j

----------------------------------------------------------------------------
\* Claims about LocalHDF5Store.

\* The key under which a slice of station_id lies in the file of a handle.
EntryKey(self, station_id) ==
    build_parameter_identifier(station_id, self.identifiers)

\* The file of the handle holds a slice for station_id.
HasEntry(self, station_id) ==
    /\ filepath(self) \in DOMAIN files
    /\ EntryKey(self, station_id) \in DOMAIN files[filepath(self)]

\* C6: store(id, T) with a non-empty T followed by restore(id) on a handle
\* with the same identifying tokens returns T: same rows, quality column
\* numerically equal, missing values in place, nullable-integer dtype again.
C6_RoundTrip ==
    (/\ prev.op = "store"
     /\ ~IsEmpty(prev.arg)
     /\ last.op = "restore"
     /\ last.self = prev.self
     /\ last.station_id = prev.station_id)
    => (/\ prev.raised = "none"
        /\ last.raised = "none"
        /\ last.df = prev.arg)

\* C7: store(id, T) with an empty T returns normally, writes nothing, leaves
\* every file, the directory and the caller's frame as they were, and so
\* every restore ends as it would have ended before.
C7_StoreEmptyIsNoOp ==
    [][(last'.op = "store" /\ IsEmpty(last'.arg))
       => (/\ last'.raised = "none"
           /\ last'.df = last'.arg
           /\ files' = files
           /\ dir_exists' = dir_exists
           /\ \A h \in StoreHandles, id \in StationIds :
                restore(h, id, FileSystem') = restore(h, id, FileSystem))]_vars

\* C7 witness: store() was called with an empty frame on a handle whose file
\* holds an earlier slice of that station, and the slice is still there.
C7_Witness ==
    /\ last.op = "store"
    /\ IsEmpty(last.arg)
    /\ HasEntry(last.self, last.station_id)
    /\ files[filepath(last.self)][EntryKey(last.self, last.station_id)] = OldSlice

\* C8: restore(station_id) returns an empty table without raising when the
\* cache file is missing or holds no slice for the station.
C8_RestoreMissIsEmpty ==
    (last.op = "restore" /\ ~HasEntry(last.self, last.station_id))
    => (last.raised = "none" /\ IsEmpty(last.df))

\* C9: invalidate() never raises; and a restore right after an invalidate()
\* on the same handle returns an empty table, whatever the station.
C9_InvalidateThenRestoreEmpty ==
    /\ last.op = "invalidate" => last.raised = "none"
    /\ (prev.op = "invalidate" /\ last.op = "restore" /\ last.self = prev.self)
       => (last.raised = "none" /\ IsEmpty(last.df))

----------------------------------------------------------------------------
\* Claims about the pipeline step and the cache.

\* What identifies a pipeline step.
StepTuple(s) == <<s.parameter_set, s.resolution, s.period, s.station_id>>

\* The cache entry a step reads at observations.py:168 and writes at
\* observations.py:183: the file of its handle, and in it the station id it
\* hands to restore() and store().
CacheEntry(s) == [path |-> filepath(s.handle), station_id |-> s.station_id]

CachedSlice(fs_files, handle, station_id) ==
    LET key == build_parameter_identifier(station_id, handle.identifiers)
    IN  IF /\ filepath(handle) \in DOMAIN fs_files
           /\ key \in DOMAIN fs_files[filepath(handle)]
        THEN CastQuality(fs_files[filepath(handle)][key], "Int64")
        ELSE EmptyFrame

C25_FetchGetsStepTuple ==
    (step.op = "step" /\ ~request.storage.configured)
    => step.fetch_calls = <<[station_id |-> step.station_id,
                             parameter_set |-> step.parameter_set,
                             resolution |-> step.resolution,
                             period |-> step.period]>>

\* The step fetched a non-empty table.
Fetched == step.op = "step" /\ step.fetch_calls /= <<>> /\ ~IsEmpty(step.df)

C29_WitnessNoPersist ==
    /\ step.op = "step"
    /\ request.storage.configured
    /\ ~request.storage.persist
    /\ ~request.storage.invalidate
    /\ step.found /= {}
    /\ DOMAIN files = step.found

C32_StoreLeavesFrame ==
    last.op = "store" => last.df = last.arg

----------------------------------------------------------------------------
\* Claims about construction.

\* The token resolves under the request's resolution.
Resolvable(token) ==
    \/ token \in SetsOf(obj.resolution)
    \/ \E ps \in SetsOf(obj.resolution) : token \in LeavesOf(obj.resolution, ps)

\* The constructor has run past the parsing of the parameter tokens.
ParametersParsed == "parameters" \in DOMAIN obj

\* C10: when at least one token resolves, the resolved parameter list holds
\* the pairs of exactly the resolvable tokens in their input order, one
\* diagnostic is logged per dropped token, and the parse does not end the
\* constructor.
C10_ResolvableKeptInOrder ==
    (ParametersParsed /\ \E i \in DOMAIN call_args.parameters :
                            Resolvable(call_args.parameters[i]))
    => LET kept == SelectSeq(call_args.parameters, Resolvable)
           dropped == SelectSeq(call_args.parameters, LAMBDA t : ~Resolvable(t))
       IN  /\ Len(obj.parameters) = Len(kept)
           /\ \A i \in DOMAIN kept :
                /\ obj.parameters[i].parameter.value = kept[i]
                /\ obj.parameters[i] =
                     create_parameter_to_parameter_set_combination(
                         kept[i], obj.resolution).value
           /\ log = dropped
           /\ raised_init \notin {"InvalidParameter", "NoParametersFound"}
           /\ pc_init = "raised" => raised_init = "InvalidEnumeration"

\* C10 witness: a request was constructed from three tokens of which the
\* middle one does not resolve and the other two resolve to different pairs.
C10_Witness ==
    /\ pc_init = "constructed"
    /\ Len(call_args.parameters) = 3
    /\ ~Resolvable(call_args.parameters[2])
    /\ Len(obj.parameters) = 2
    /\ obj.parameters[1] /= obj.parameters[2]
    /\ log = <<call_args.parameters[2]>>

\* The constructor's resolution token is a member of the enumeration.
ResolutionValid == call_args.resolution \in Resolutions

\* C11: a request none of whose parameter tokens resolves (the empty token
\* list included) fails with NoParametersFound, and every constructed
\* request has a non-empty resolved parameter list.
C11_NoParametersFails ==
    /\ (ParametersParsed /\ \A i \in DOMAIN call_args.parameters :
                               ~Resolvable(call_args.parameters[i]))
       => /\ pc_init = "raised"
          /\ raised_init = "NoParametersFound"
    /\ pc_init \in {"storage", "periods", "constructed"}
       => obj.parameters /= <<>>

\* C11 witness: two tokens, neither resolves, and the constructor has failed
\* with NoParametersFound.
C11_Witness ==
    /\ pc_init = "raised"
    /\ raised_init = "NoParametersFound"
    /\ Len(call_args.parameters) = 2
    /\ ParametersParsed
    /\ obj.parameters = <<>>
    /\ Len(log) = 2

\* C12: an invalid resolution token ends the constructor with
\* InvalidEnumeration before anything else has happened: no parameter token
\* is resolved or logged, no date range is validated, no data is collected;
\* and no parameter is ever resolved without a validated resolution.
C12_ResolutionFirst ==
    /\ (~ResolutionValid /\ pc_init /= "resolution")
       => /\ pc_init = "raised"
          /\ raised_init = "InvalidEnumeration"
          /\ obj = <<>>
          /\ log = <<>>
          /\ StepIdle
          /\ MergeIdle
    /\ (ParametersParsed \/ "start_date" \in DOMAIN obj)
       => /\ ResolutionValid
          /\ obj.resolution = parse_resolution(call_args.resolution).value

\* C12 witness: an invalid resolution token with a resolvable-looking token
\* list and an inverted date range has failed with InvalidEnumeration.
C12_Witness ==
    /\ ~ResolutionValid
    /\ pc_init = "raised"
    /\ raised_init = "InvalidEnumeration"
    /\ call_args.parameters = <<"kl">>
    /\ call_args.start_date /= <<>>
    /\ call_args.end_date /= <<>>
    /\ call_args.start_date[1].day > call_args.end_date[1].day

\* The constructor has run past Core.__init__ or was ended by it.
CoreInitDone ==
    /\ ResolutionValid
    /\ pc_init \notin {"resolution", "core"}

\* C13: with both bounds supplied, start <= end keeps both bounds as given
\* and in that order, start > end fails with StartDateEndDateError; every
\* constructed request with bounds has start_date <= end_date.
C13_DateRangeValidated ==
    /\ (CoreInitDone /\ call_args.start_date /= <<>> /\ call_args.end_date /= <<>>)
       => IF call_args.start_date[1].day <= call_args.end_date[1].day
          THEN /\ obj.start_date = <<ToTimestamp(call_args.start_date[1])>>
               /\ obj.end_date = <<ToTimestamp(call_args.end_date[1])>>
               /\ raised_init /= "StartDateEndDateError"
          ELSE /\ pc_init = "raised"
               /\ raised_init = "StartDateEndDateError"
               /\ "start_date" \notin DOMAIN obj
    /\ (pc_init = "constructed" /\ obj.start_date /= <<>> /\ obj.end_date /= <<>>)
       => obj.start_date[1].day <= obj.end_date[1].day

\* C13 witness: a request was constructed from a start before its end.
C13_Witness ==
    /\ pc_init = "constructed"
    /\ call_args.start_date /= <<>>
    /\ call_args.end_date /= <<>>
    /\ call_args.start_date[1].day < call_args.end_date[1].day
    /\ obj.start_date[1].day < obj.end_date[1].day

\* C14: exactly one bound supplied makes both bounds that one; none supplied
\* leaves both unset; neither case raises the range error, and a constructed
\* request has both bounds or none.
C14_SingleBoundBroadcast ==
    /\ (CoreInitDone /\ call_args.start_date /= <<>> /\ call_args.end_date = <<>>)
       => /\ obj.start_date = <<ToTimestamp(call_args.start_date[1])>>
          /\ obj.end_date = obj.start_date
          /\ raised_init /= "StartDateEndDateError"
    /\ (CoreInitDone /\ call_args.start_date = <<>> /\ call_args.end_date /= <<>>)
       => /\ obj.end_date = <<ToTimestamp(call_args.end_date[1])>>
          /\ obj.start_date = obj.end_date
          /\ raised_init /= "StartDateEndDateError"
    /\ (CoreInitDone /\ call_args.start_date = <<>> /\ call_args.end_date = <<>>)
       => /\ obj.start_date = <<>>
          /\ obj.end_date = <<>>
          /\ raised_init /= "StartDateEndDateError"
    /\ "start_date" \in DOMAIN obj
       => (obj.start_date = <<>> <=> obj.end_date = <<>>)

\* C14 witness: a request was constructed from an end date alone.
C14_Witness ==
    /\ pc_init = "constructed"
    /\ call_args.start_date = <<>>
    /\ call_args.end_date /= <<>>
    /\ obj.start_date = <<ToTimestamp(call_args.end_date[1])>>

\* The periods the caller's tokens name.
SuppliedPeriods ==
    {parse_period(call_args.periods[i]).value :
        i \in {j \in DOMAIN call_args.periods :
                    parse_period(call_args.periods[j]).raised = "none"}}

\* The table the loop has built after the first k periods of the request's
\* list, taken in the list's order.
RECURSIVE MergedPrefix(_)
MergedPrefix(k) ==
    IF k = 0 THEN EmptyFrame
    ELSE MergePeriod(MergedPrefix(k - 1), slices[k])

CallerPeriodsUsed ==
    /\ call_args.start_date = <<>>
    /\ call_args.end_date = <<>>
    /\ call_args.periods /= <<>>

\* Some period the caller named is a period, but not one the archive has for
\* a requested parameter set under the request's resolution.
InvalidPeriodRequested ==
    /\ CallerPeriodsUsed
    /\ "parameters" \in DOMAIN obj
    /\ \E p \in SuppliedPeriods, j \in DOMAIN obj.parameters :
            ~check_dwd_observations_parameter_set(obj.parameters[j].parameter_set,
                                                  obj.resolution, p)

\* C16: a request naming a period that is not defined for its resolution and
\* parameter set is never constructed, and so its period loop never ends
\* with an empty table.
C16_InvalidPeriodFailsConstruction ==
    InvalidPeriodRequested
    => /\ pc_init /= "constructed"
       /\ pc_merge = "idle"

----------------------------------------------------------------------------
\* Claims about collection.

\* The j-th resolved parameter is a leaf parameter, not a whole parameter set.
IsLeaf(j) ==
    \E ps \in SetsOf(obj.resolution) :
        obj.parameters[j].parameter.value \in LeavesOf(obj.resolution, ps)

\* The generator of collect_data has been started.
Collecting ==
    collect.pc \in {"created", "running", "yielded", "done", "returned", "raised"}

RowsInRange ==
    SelectSeq(collect.station_df.rows,
              LAMBDA r : /\ "DATE" \in DOMAIN r
                         /\ obj.start_date[1].day <= r.DATE
                         /\ r.DATE <= obj.end_date[1].day)

\* C18: with a date range and a DATE column, the table yielded for a station
\* holds exactly the rows of the assembled table with
\* start_date <= DATE <= end_date, in their order.
C18_DateFilterInclusive ==
    (/\ collect.pc = "yielded"
     /\ obj.start_date /= <<>>
     /\ collect.station_df.has_date)
    => /\ collect.yielded[Len(collect.yielded)].rows = RowsInRange
       /\ collect.yielded[Len(collect.yielded)].has_date

\* C18 witness: a one-day range; the assembled table has a row before or
\* after that day and a row on it, and only the latter was yielded.
C18_Witness ==
    /\ collect.pc = "yielded"
    /\ obj.start_date /= <<>>
    /\ obj.start_date = obj.end_date
    /\ collect.station_df.has_date
    /\ Len(collect.station_df.rows) = 2
    /\ Len(collect.yielded[Len(collect.yielded)].rows) = 1
    /\ collect.yielded[Len(collect.yielded)].rows[1].DATE = obj.start_date[1].day

RECURSIVE YieldedRows(_)
YieldedRows(k) ==
    IF k = 0 THEN <<>>
    ELSE YieldedRows(k - 1) \o collect.yielded[k].rows

\* C20: collect_safe raises the no-data error exactly when collect_data has
\* yielded nothing; otherwise it returns the yielded tables concatenated in
\* yield order, which is never empty.
C20_CollectSafe ==
    collect.pc = "returned"
    => /\ collect.result.raised = "ValueError" <=> collect.yielded = <<>>
       /\ collect.yielded /= <<>>
          => /\ collect.result.raised = "none"
             /\ collect.result.value.rows = YieldedRows(Len(collect.yielded))
             /\ ~IsEmpty(collect.result.value)

\* C20 witness: both stations yielded a table, the tables differ, and
\* collect_safe has returned their concatenation.
C20_Witness ==
    /\ collect.pc = "returned"
    /\ Len(collect.yielded) = 2
    /\ collect.yielded[1] /= collect.yielded[2]
    /\ collect.result.raised = "none"
    /\ Len(collect.result.value.rows) =
         Len(collect.yielded[1].rows) + Len(collect.yielded[2].rows)

\* The position of a station id in the request's station id list.
StationPosition(station_id) ==
    CHOOSE i \in DOMAIN obj.station_ids : obj.station_ids[i] = station_id

\* The station every row of the i-th yielded table belongs to.
YieldedStation(i) == collect.yielded[i].rows[1].STATION_ID

\* The calls of _collect_data of this run for the first k stations of the
\* request, station by station and within a station parameter by parameter.
RECURSIVE WorkInOrder(_)
WorkInOrder(k) ==
    IF k = 0 THEN <<>>
    ELSE WorkInOrder(k - 1)
         \o [j \in DOMAIN obj.parameters |->
                [run |-> collect.run, station_id |-> obj.station_ids[k],
                 parameter |-> j]]

\* The rows of the first k per-parameter tables of the station, built from
\* the tables of the period loop in resolved-parameter order.
RECURSIVE StationRows(_)
StationRows(k) ==
    IF k = 0 THEN <<>>
    ELSE StationRows(k - 1)
         \o finish_collect_data(obj, obj.parameters[k], collect.merged[k]).df.rows

C27_NoDateColumnSkipsFilter ==
    [][(/\ collect.pc = "running"
        /\ collect'.pc /= "idle"
        /\ collect'.station_idx = collect.station_idx + 1
        /\ obj.start_date /= <<>>
        /\ ~collect'.station_df.has_date
        /\ ~IsEmpty(collect'.station_df))
       => /\ collect'.pc = "yielded"
          /\ collect'.yielded = Append(collect.yielded, collect'.station_df)]_vars

\* C27 witness: a request with a date range has yielded a table that has
\* rows and no DATE column.
C27_Witness ==
    /\ collect.pc = "yielded"
    /\ obj.start_date /= <<>>
    /\ ~collect.station_df.has_date
    /\ ~IsEmpty(collect.station_df)
    /\ collect.yielded[Len(collect.yielded)] = collect.station_df

----------------------------------------------------------------------------
\* Claims about the station queries.

NumberQueried == sites.op = "constructed" /\ sites.last.op = "nearby_number"

RadiusQueried == sites.op = "constructed" /\ sites.last.op = "nearby_radius"

\* The row without the distance attached to it.
StationOf(row) ==
    [f \in DOMAIN row \ {"DISTANCE_TO_LOCATION"} |-> row[f]]

\* table is ordered by non-decreasing distance, rows at the same distance by
\* their position in the metadata (the station id is that position).
RankedByDistance(table) ==
    \A i, j \in DOMAIN table :
        i < j =>
            \/ table[i].DISTANCE_TO_LOCATION < table[j].DISTANCE_TO_LOCATION
            \/ /\ table[i].DISTANCE_TO_LOCATION = table[j].DISTANCE_TO_LOCATION
               /\ table[i].STATION_ID < table[j].STATION_ID

\* C22: nearby_number(lat, lon, k) fails with ValueError when k <= 0; for
\* k >= 1 it raises nothing and returns exactly min(k, number of rows of
\* all()) rows, each a row of all() carrying its distance in km to the query
\* point, no row of all() left out being nearer than a row returned, ordered
\* by non-decreasing distance with equal distances in original row order.
C22_NearbyNumber ==
    NumberQueried =>
        LET k == sites.last.num_stations_nearby
            stations == all(sites)
            df == sites.last.df
        IN  IF k <= 0 THEN sites.last.raised = "ValueError"
            ELSE /\ sites.last.raised = "none"
                 /\ Len(df) = Min(k, Len(stations))
                 /\ \A i \in DOMAIN df :
                        /\ "DISTANCE_TO_LOCATION" \in DOMAIN df[i]
                        /\ StationOf(df[i]) \in Range(stations)
                        /\ df[i].DISTANCE_TO_LOCATION =
                             Distance(df[i], sites.last.latitude) * KM_EARTH_RADIUS
                 /\ RankedByDistance(df)
                 /\ \A r \in Range(stations) :
                        r \notin {StationOf(df[i]) : i \in DOMAIN df} =>
                            \A i \in DOMAIN df :
                                df[i].DISTANCE_TO_LOCATION
                                  <= Distance(r, sites.last.latitude) * KM_EARTH_RADIUS

\* C22 witness: more stations asked for than there are; the two nearest are
\* at the same distance and come in row order, ahead of the first row of the
\* table, which is further away.
C22_Witness ==
    /\ NumberQueried
    /\ sites.last.raised = "none"
    /\ sites.last.num_stations_nearby > Len(all(sites))
    /\ Len(sites.last.df) = 3
    /\ sites.last.df[1].DISTANCE_TO_LOCATION = sites.last.df[2].DISTANCE_TO_LOCATION
    /\ sites.last.df[2].DISTANCE_TO_LOCATION < sites.last.df[3].DISTANCE_TO_LOCATION
    /\ sites.last.df[3].STATION_ID = 1

\* C22 witness of the failure: a neighbour count of zero.
C22_WitnessInvalid ==
    /\ NumberQueried
    /\ sites.last.num_stations_nearby = 0
    /\ sites.last.raised = "ValueError"
    /\ Len(all(sites)) >= 1

\* C23 (refuted by the code): nearby_radius(lat, lon, max_km) fails with
\* ValueError when max_km < 0; for max_km >= 0 it raises nothing and returns
\* exactly the rows of all() whose distance is <= max_km, each with its
\* distance, in the order of the distance ranking.
C23_NearbyRadius ==
    RadiusQueried =>
        LET max_km == sites.last.max_distance_in_km
            stations == all(sites)
            df == sites.last.df
        IN  IF max_km < 0 THEN sites.last.raised = "ValueError"
            ELSE /\ sites.last.raised = "none"
                 /\ {StationOf(df[i]) : i \in DOMAIN df} =
                        {r \in Range(stations) :
                            Distance(r, sites.last.latitude) * KM_EARTH_RADIUS
                              <= max_km}
                 /\ Len(df) = Cardinality({StationOf(df[i]) : i \in DOMAIN df})
                 /\ \A i \in DOMAIN df :
                        df[i].DISTANCE_TO_LOCATION =
                            Distance(df[i], sites.last.latitude) * KM_EARTH_RADIUS
                 /\ RankedByDistance(df)

----------------------------------------------------------------------------
\* Claims about a period the archive does not have.

\* The archive has no period periods[i] for the request's parameter set and
\* resolution: the collaborator raises InvalidParameterCombination for it.
InvalidCombination(i) ==
    ~check_dwd_observations_parameter_set(obj.parameters[1].parameter_set,
                                          obj.resolution, periods[i])

\* The merge of the first k slices, those of invalid combinations left out.
RECURSIVE MergedValid(_)
MergedValid(k) ==
    IF k = 0 THEN EmptyFrame
    ELSE IF InvalidCombination(k) THEN MergedValid(k - 1)
    ELSE MergePeriod(MergedValid(k - 1), slices[k])

C26_WitnessAlone ==
    /\ pc_merge = "merged"
    /\ Len(periods) = 1
    /\ InvalidCombination(1)
    /\ parameter_df = EmptyFrame

\* C33 (refuted by the code): for every max_km >= 0, nearby_radius raises
\* nothing and returns a table, also when all() holds no station.
C33_NearbyRadiusNeverRaises ==
    (RadiusQueried /\ sites.last.max_distance_in_km >= 0)
    => sites.last.raised = "none"

----------------------------------------------------------------------------
\* Claims about the consumer's side of collect_data.

\* The calls of _collect_data made by the current call of collect_data.
RunWork == SelectSeq(collect.work, LAMBDA w : w.run = collect.run)

\* C28: collect_data is pull-based.  The calls of _collect_data of the
\* current call are those for the stations before station_idx, in order, and
\* while the generator is suspended at a yield they end with the station
\* just yielded; calls of _collect_data are made only while the generator
\* runs on a request of the consumer, for the station it stands at; a
\* dropped generator makes none; and a new call of collect_data starts at
\* the first station with nothing yielded and nothing kept but the request.
C28_PullBased ==
    /\ [](Collecting =>
            /\ RunWork = WorkInOrder(collect.station_idx - 1)
            /\ collect.pc = "created" => RunWork = <<>>
            /\ collect.pc = "yielded" =>
                  /\ collect.yielded /= <<>>
                  /\ YieldedStation(Len(collect.yielded))
                       = obj.station_ids[collect.station_idx - 1])
    /\ [][/\ (collect.pc /= "idle" /\ collect'.work /= collect.work) =>
                /\ collect.pc = "running"
                /\ collect'.run = collect.run
                /\ collect'.work = collect.work \o HookCalls(obj, collect)
          /\ (collect.pc /= "idle" /\ collect'.pc = "running"
                /\ collect.pc /= "running") =>
                /\ collect.pc \in {"created", "yielded"}
                /\ collect'.work = collect.work
          /\ (collect.pc /= "idle" /\ collect'.run /= collect.run) =>
                collect' = [pc |-> "created", station_idx |-> 1,
                            merged |-> <<>>, parameter_dfs |-> <<>>,
                            station_df |-> EmptyFrame, yielded |-> <<>>,
                            result |-> NoCall, run |-> collect.run + 1,
                            work |-> collect.work]]_vars

\* C28 witness: the first call was dropped after the first station's table,
\* no call of _collect_data had been made for the second station, and the
\* second call has yielded the first station's table again.
C28_Witness ==
    /\ collect.pc = "yielded"
    /\ collect.run = 2
    /\ Len(collect.yielded) = 1
    /\ YieldedStation(1) = obj.station_ids[1]
    /\ collect.work =
         <<[run |-> 1, station_id |-> obj.station_ids[1], parameter |-> 1],
           [run |-> 2, station_id |-> obj.station_ids[1], parameter |-> 1]>>

----------------------------------------------------------------------------
\* Claims about the storage adapter.

\* C34 (refuted by the code): the constructor of StorageAdapter ends
\* normally; reading the source ends normally; assigning the source ends
\* normally for a member of Source and with an error for any other value;
\* and a request that is passed an adapter is constructed as far as its
\* storage, the assignment of observations.py:84 raising nothing.
C34_AdapterSourceTerminates ==
    /\ adapter.op = "instance" =>
          CASE adapter.last.op = "__init__" -> adapter.last.raised = "none"
            [] adapter.last.op = "get" -> adapter.last.raised = "none"
            [] adapter.last.op = "set" ->
                  (adapter.last.raised = "none") <=> (adapter.last.value \in Source)
    /\ (pc_init /= "idle" /\ call_args.storage.configured) =>
          raised_init /= "RecursionError"

====
